---- MODULE Spec2Model ----
(***************************************************************************)
(* Model of the conversion registry of the Universal File Operator         *)
(* (converters/registry.py), the converter contract                        *)
(* (converters/base_converter.py) and the converter classes registered     *)
(* with it (converters/encoding.py, converters/numbers.py,                 *)
(* converters/simple_converters.py).                                       *)
(*                                                                         *)
(* Python strings and bytes are sequences of code points / byte values,    *)
(* so that lower(), strip(), sorted() and the codecs are computed, not     *)
(* assumed.                                                                *)
(***************************************************************************)
EXTENDS Integers, Sequences, FiniteSets, TLC

VARIABLES converters, format_graph, format_converters, registered_count,
          class_meta, provenance, result

vars == <<converters, format_graph, format_converters, registered_count,
          class_meta, provenance, result>>

(***************************************************************************)
(* Bounds                                                                  *)
(***************************************************************************)
\* _registered_count is not driven beyond this
MaxRegistered == 3

(***************************************************************************)
(* Strings                                                                 *)
(***************************************************************************)
\* Python None where a str is expected (no code point is negative)
None == <<-1>>

\* 'binary'
binary == <<98, 105, 110, 97, 114, 121>>
\* 'base64'
base64 == <<98, 97, 115, 101, 54, 52>>
\* 'hex'
hex == <<104, 101, 120>>
\* 'decimal'
decimal == <<100, 101, 99, 105, 109, 97, 108>>
\* 'binary_num'
binary_num == <<98, 105, 110, 97, 114, 121, 95, 110, 117, 109>>
\* ' BINARY '
BINARY_padded == <<32, 66, 73, 78, 65, 82, 89, 32>>
\* 'Base64'
Base64_mixed == <<66, 97, 115, 101, 54, 52>>
\* ' ' (whitespace only)
Blank == <<32>>
\* ''
Empty == <<>>

\* the characters str.strip() removes
Whitespace == {9, 10, 11, 12, 13, 28, 29, 30, 31, 32}

\* str.lower() on one character
LowerChar(c) == IF c >= 65 /\ c <= 90 THEN c + 32 ELSE c

\* str.lower()
lower(s) == [i \in 1..Len(s) |-> LowerChar(s[i])]

RECURSIVE lstrip(_)
lstrip(s) ==
    IF s # <<>> /\ s[1] \in Whitespace THEN lstrip(Tail(s)) ELSE s

RECURSIVE rstrip(_)
rstrip(s) ==
    IF s # <<>> /\ s[Len(s)] \in Whitespace
    THEN rstrip(SubSeq(s, 1, Len(s) - 1))
    ELSE s

\* str.strip()
strip(s) == rstrip(lstrip(s))

\* "Normalize format names": name.lower().strip()
Normalize(s) == strip(lower(s))

\* Python truthiness of an optional str: None and '' are falsy
Falsy(s) == s = None \/ s = <<>>

\* a < b for str (lexicographic by code point)
RECURSIVE StrLess(_, _)
StrLess(a, b) ==
    IF b = <<>> THEN FALSE
    ELSE IF a = <<>> THEN TRUE
    ELSE IF a[1] # b[1] THEN a[1] < b[1]
    ELSE StrLess(Tail(a), Tail(b))

\* sorted(S) for a set of str
RECURSIVE sorted(_)
sorted(S) ==
    IF S = {} THEN <<>>
    ELSE LET m == CHOOSE x \in S : \A y \in S : y = x \/ StrLess(x, y)
         IN  <<m>> \o sorted(S \ {m})

\* (f1, t1) < (f2, t2) for tuples of str
PairLess(p, q) ==
    \/ StrLess(p[1], q[1])
    \/ p[1] = q[1] /\ StrLess(p[2], q[2])

Range(s) == {s[i] : i \in 1..Len(s)}

(***************************************************************************)
(* Converter classes                                                       *)
(***************************************************************************)
\* the classes handed to the registry; NotAConverter stands for any class
\* that does not inherit from BaseConverter
Classes == {"BinaryBase64Converter", "BinaryHexConverter",
            "Base64ToBinaryConverter", "DecimalBinaryConverter",
            "NotAConverter"}

\* issubclass(cls, ReversibleConverter)
IsReversible(cls) ==
    cls \in {"BinaryBase64Converter", "BinaryHexConverter",
             "DecimalBinaryConverter"}

\* a type check that accepts every class
IsBaseConverter_Any(cls) == TRUE

\* issubclass(cls, BaseConverter)
IsBaseConverter(cls) ==
    IsReversible(cls) \/ cls = "Base64ToBinaryConverter"

\* BaseConverter.__init__: fields of a converter instance
BaseInit(cls, from_format, to_format, description) ==
    [cls         |-> cls,
     from_format |-> lower(from_format),
     to_format   |-> lower(to_format),
     description |-> description,
     format_a    |-> None,
     format_b    |-> None]

\* ReversibleConverter.__init__
ReversibleInit(cls, format_a, format_b, description) ==
    [BaseInit(cls, format_a, format_b, description) EXCEPT
        !.format_a = lower(format_a),
        !.format_b = lower(format_b)]

\* converter_class(from_format, to_format): each class's own __init__
Construct(cls, from_format, to_format) ==
    CASE cls = "BinaryBase64Converter" ->
            [ReversibleInit(cls, from_format, to_format,
                "Convert binary data to/from Base64 encoding") EXCEPT
                !.format_a = binary,
                !.format_b = base64]
      [] cls = "BinaryHexConverter" ->
            ReversibleInit(cls, binary, hex,
                "Convert binary data to/from hexadecimal encoding")
      [] cls = "DecimalBinaryConverter" ->
            ReversibleInit(cls, decimal, binary_num,
                "Convert decimal to/from binary representation")
      [] cls = "Base64ToBinaryConverter" ->
            BaseInit(cls, base64, binary,
                "Convert Base64 string to binary data")

\* converter_class(format_a, format_b, description), the call made by
\* create_reverse: the __init__ of every class of Classes takes exactly
\* (from_format, to_format), so a third positional argument is a TypeError;
\* a class that inherits ReversibleConverter.__init__ accepts it
ConstructWithDescription(cls, format_a, format_b, description) ==
    IF cls \in Classes
    THEN [exc |-> "TypeError", instance |-> None]
    ELSE [exc      |-> "",
          instance |-> ReversibleInit(cls, format_a, format_b, description)]

\* ReversibleConverter.create_reverse
create_reverse(inst) ==
    ConstructWithDescription(inst.cls, inst.format_b, inst.format_a,
                             inst.description)

(***************************************************************************)
(* Data values and codecs                                                  *)
(***************************************************************************)
\* Python values handed to convert(): bytes, str, int or None
PyBytes(s) == [t |-> "bytes", s |-> s, n |-> 0]
PyStr(s) == [t |-> "str", s |-> s, n |-> 0]
PyInt(n) == [t |-> "int", s |-> <<>>, n |-> n]
NoneData == [t |-> "none", s |-> <<>>, n |-> 0]

\* a returned value / a raised exception
Ok(v) == [exc |-> "", value |-> v]
Raise(e) == [exc |-> e, value |-> NoneData]

\* the base64 alphabet: character of a 6-bit value
B64Char(v) ==
    IF v < 26 THEN 65 + v
    ELSE IF v < 52 THEN 97 + (v - 26)
    ELSE IF v < 62 THEN 48 + (v - 52)
    ELSE IF v = 62 THEN 43 ELSE 47

\* 6-bit value of a character, 64 when outside the alphabet
B64Val(c) ==
    IF c >= 65 /\ c <= 90 THEN c - 65
    ELSE IF c >= 97 /\ c <= 122 THEN c - 97 + 26
    ELSE IF c >= 48 /\ c <= 57 THEN c - 48 + 52
    ELSE IF c = 43 THEN 62
    ELSE IF c = 47 THEN 63 ELSE 64

\* base64.b64encode(data).decode('ascii')
RECURSIVE b64encode(_)
b64encode(bs) ==
    IF Len(bs) = 0 THEN <<>>
    ELSE IF Len(bs) = 1 THEN
        <<B64Char(bs[1] \div 4), B64Char((bs[1] % 4) * 16), 61, 61>>
    ELSE IF Len(bs) = 2 THEN
        <<B64Char(bs[1] \div 4),
          B64Char((bs[1] % 4) * 16 + bs[2] \div 16),
          B64Char((bs[2] % 16) * 4), 61>>
    ELSE
        <<B64Char(bs[1] \div 4),
          B64Char((bs[1] % 4) * 16 + bs[2] \div 16),
          B64Char((bs[2] % 16) * 4 + bs[3] \div 64),
          B64Char(bs[3] % 64)>> \o b64encode(SubSeq(bs, 4, Len(bs)))

\* binascii.a2b_base64 (non-strict), the decoder behind base64.b64decode:
\* characters outside the alphabet are skipped, a completed pad ends the
\* parse, leftover characters are an error
RECURSIVE a2b_base64(_, _, _, _, _)
a2b_base64(s, quad_pos, leftchar, pads, out) ==
    IF s = <<>> THEN (IF quad_pos # 0 THEN Raise("binascii.Error")
                      ELSE Ok(PyBytes(out)))
    ELSE IF s[1] = 61 THEN
        IF quad_pos >= 2 /\ quad_pos + pads + 1 >= 4 THEN Ok(PyBytes(out))
        ELSE a2b_base64(Tail(s), quad_pos, leftchar,
                        IF quad_pos >= 2 THEN pads + 1 ELSE pads, out)
    ELSE IF B64Val(s[1]) = 64 THEN
        a2b_base64(Tail(s), quad_pos, leftchar, pads, out)
    ELSE LET v == B64Val(s[1]) IN
        CASE quad_pos = 0 -> a2b_base64(Tail(s), 1, v, 0, out)
          [] quad_pos = 1 -> a2b_base64(Tail(s), 2, v % 16, 0,
                                 Append(out, leftchar * 4 + v \div 16))
          [] quad_pos = 2 -> a2b_base64(Tail(s), 3, v % 4, 0,
                                 Append(out, leftchar * 16 + v \div 4))
          [] quad_pos = 3 -> a2b_base64(Tail(s), 0, 0, 0,
                                 Append(out, leftchar * 64 + v))

\* base64.b64decode(s) for str s: non-ASCII text is a ValueError
b64decode(s) ==
    IF \E i \in 1..Len(s) : s[i] > 127 THEN Raise("ValueError")
    ELSE a2b_base64(s, 0, 0, 0, <<>>)

\* ''.join(data.split()): all whitespace removed
RemoveWhitespace(s) == SelectSeq(s, LAMBDA c : c \notin Whitespace)

\* one lower-case hexadecimal digit
HexDigit(v) == IF v < 10 THEN 48 + v ELSE 97 + (v - 10)

\* value of a hexadecimal digit, 16 when it is none
HexVal(c) ==
    IF c >= 48 /\ c <= 57 THEN c - 48
    ELSE IF c >= 97 /\ c <= 102 THEN c - 97 + 10
    ELSE IF c >= 65 /\ c <= 70 THEN c - 65 + 10 ELSE 16

\* bytes.hex()
RECURSIVE bytes_hex(_)
bytes_hex(bs) ==
    IF bs = <<>> THEN <<>>
    ELSE <<HexDigit(bs[1] \div 16), HexDigit(bs[1] % 16)>>
         \o bytes_hex(Tail(bs))

\* bytes.fromhex(s): pairs of hex digits, ASCII whitespace between pairs
RECURSIVE fromhex(_, _)
fromhex(s, out) ==
    IF s = <<>> THEN Ok(PyBytes(out))
    ELSE IF s[1] \in {9, 10, 11, 12, 13, 32} THEN fromhex(Tail(s), out)
    ELSE IF Len(s) >= 2 /\ HexVal(s[1]) < 16 /\ HexVal(s[2]) < 16
         THEN fromhex(SubSeq(s, 3, Len(s)),
                      Append(out, HexVal(s[1]) * 16 + HexVal(s[2])))
         ELSE Raise("ValueError")

\* s.startswith(prefix)
StartsWith(s, prefix) ==
    Len(s) >= Len(prefix) /\ SubSeq(s, 1, Len(prefix)) = prefix

\* s.replace(old, '') for a non-empty old
RECURSIVE Remove(_, _)
Remove(s, old) ==
    IF s = <<>> THEN <<>>
    ELSE IF StartsWith(s, old)
         THEN Remove(SubSeq(s, Len(old) + 1, Len(s)), old)
         ELSE <<s[1]>> \o Remove(Tail(s), old)

\* value of the digits of s in the given base, -1 when s is not all digits
RECURSIVE DigitsValue(_, _, _)
DigitsValue(s, base, acc) ==
    IF s = <<>> THEN acc
    ELSE IF s[1] >= 48 /\ s[1] < 48 + base
         THEN DigitsValue(Tail(s), base, acc * base + (s[1] - 48))
         ELSE -1

\* int(s, base) for base <= 10 on text without underscores: surrounding
\* whitespace and one sign are accepted, anything else is a ValueError
ParseInt(s, base) ==
    LET c == strip(s)
        neg == c # <<>> /\ c[1] = 45
        d == IF c # <<>> /\ c[1] \in {43, 45} THEN Tail(c) ELSE c
    IN  IF d = <<>> \/ DigitsValue(d, base, 0) < 0
        THEN Raise("ValueError")
        ELSE Ok(PyInt(IF neg THEN 0 - DigitsValue(d, base, 0)
                    ELSE DigitsValue(d, base, 0)))

\* int(data) for an int or a str
ToInt(data) == IF data.t = "int" THEN Ok(data) ELSE ParseInt(data.s, 10)

\* the binary digits of n >= 0, as bin(n)[2:]
RECURSIVE BinDigits(_)
BinDigits(n) ==
    IF n < 2 THEN <<48 + n>>
    ELSE Append(BinDigits(n \div 2), 48 + (n % 2))

(***************************************************************************)
(* The converter contract                                                  *)
(***************************************************************************)
\* validate_input of each class (BaseConverter.validate_input first):
\* the exception raised, "" when the input is accepted
validate_input(inst, data) ==
    IF data.t = "none" THEN "ValidationError"
    ELSE CASE inst.cls = "BinaryBase64Converter" ->
                IF inst.from_format = binary /\ data.t # "bytes"
                THEN "ValidationError"
                ELSE IF inst.from_format = base64 /\ data.t # "str"
                THEN "ValidationError" ELSE ""
           [] inst.cls = "BinaryHexConverter" ->
                IF inst.from_format = binary /\ data.t # "bytes"
                THEN "ValidationError"
                ELSE IF inst.from_format = hex /\ data.t # "str"
                THEN "ValidationError" ELSE ""
           [] inst.cls = "DecimalBinaryConverter" ->
                IF inst.from_format = decimal
                THEN IF data.t \notin {"int", "str"} THEN "ValidationError"
                     ELSE IF ToInt(data).exc # "" THEN "ValidationError"
                     ELSE ""
                ELSE IF inst.from_format = binary_num /\ data.t # "str"
                THEN "ValidationError" ELSE ""
           [] inst.cls = "Base64ToBinaryConverter" ->
                IF data.t # "str" THEN "ValidationError" ELSE ""

\* "except Exception as e: raise ConversionError(...)" around a transform
AsConversionError(r) == IF r.exc = "" THEN r ELSE Raise("ConversionError")

\* _convert_a_to_b of each reversible class
convert_a_to_b(cls, data) ==
    CASE cls = "BinaryBase64Converter" ->
            IF data.t # "bytes" THEN Raise("ConversionError")
            ELSE Ok(PyStr(b64encode(data.s)))
      [] cls = "BinaryHexConverter" ->
            IF data.t # "bytes" THEN Raise("ConversionError")
            ELSE Ok(PyStr(bytes_hex(data.s)))
      [] cls = "DecimalBinaryConverter" ->
            LET num == ToInt(data) IN
            IF data.t \notin {"int", "str"} \/ num.exc # ""
            THEN Raise("ConversionError")
            ELSE IF num.value.n < 0
                 THEN Ok(PyStr(<<45>> \o BinDigits(0 - num.value.n)))
                 ELSE Ok(PyStr(BinDigits(num.value.n)))

\* _convert_b_to_a of each reversible class
convert_b_to_a(cls, data) ==
    CASE cls = "BinaryBase64Converter" ->
            IF data.t # "str" THEN Raise("ConversionError")
            ELSE AsConversionError(b64decode(RemoveWhitespace(data.s)))
      [] cls = "BinaryHexConverter" ->
            IF data.t # "str" THEN Raise("ConversionError")
            ELSE AsConversionError(
                    fromhex(Remove(Remove(Remove(Remove(data.s,
                        <<48, 120>>), <<58>>), <<45>>), <<32>>), <<>>))
      [] cls = "DecimalBinaryConverter" ->
            IF data.t # "str" THEN Raise("ConversionError")
            ELSE LET c0 == strip(data.s)
                     negative == StartsWith(c0, <<45>>)
                     c1 == IF negative THEN Tail(c0) ELSE c0
                     cleaned == IF StartsWith(c1, <<48, 98>>)
                                THEN SubSeq(c1, 3, Len(c1)) ELSE c1
                 IN  IF cleaned = <<>> \/ DigitsValue(cleaned, 2, 0) < 0
                     THEN Raise("ConversionError")
                     ELSE Ok(PyInt(IF negative
                                   THEN 0 - DigitsValue(cleaned, 2, 0)
                                   ELSE DigitsValue(cleaned, 2, 0)))

\* what a transform returned and which transform ran
Ran(r, which) == [exc |-> r.exc, value |-> r.value, ran |-> which]

\* a routing that runs the forward transform for every pair that is not
\* the backward one
ReversibleConvert_DefaultsForward(inst, data) ==
    IF inst.from_format = inst.format_b /\ inst.to_format = inst.format_a
    THEN Ran(convert_b_to_a(inst.cls, data), "b_to_a")
    ELSE Ran(convert_a_to_b(inst.cls, data), "a_to_b")

\* ReversibleConverter._convert: route on the instance's formats
ReversibleConvert(inst, data) ==
    IF inst.from_format = inst.format_a /\ inst.to_format = inst.format_b
    THEN Ran(convert_a_to_b(inst.cls, data), "a_to_b")
    ELSE IF inst.from_format = inst.format_b
            /\ inst.to_format = inst.format_a
    THEN Ran(convert_b_to_a(inst.cls, data), "b_to_a")
    ELSE Ran(Raise("ConversionError"), "none")

\* _convert of each class
ClassConvert(inst, data) ==
    IF inst.cls = "Base64ToBinaryConverter"
    THEN Ran(IF data.t # "str" THEN Raise("ConversionError")
             ELSE AsConversionError(b64decode(RemoveWhitespace(data.s))),
             "_convert")
    ELSE ReversibleConvert(inst, data)

\* BaseConverter.convert (no options): validate, then transform; a
\* ConversionError passes through, anything else is wrapped into one
convert(inst, data) ==
    IF validate_input(inst, data) # ""
    THEN Ran(Raise(validate_input(inst, data)), "none")
    ELSE LET r == ClassConvert(inst, data)
         IN  IF r.exc \in {"", "ConversionError", "ValidationError",
                           "UnsupportedFormatError"}
             THEN r
             ELSE Ran(Raise("ConversionError"), r.ran)

\* the classes of utils/exceptions.py, all derived from ConversionError
IsConversionError(exc) ==
    exc \in {"ConversionError", "UnsupportedFormatError", "ValidationError",
             "ConfigurationError", "ProcessingError"}

\* the exception classes whose __init__ has an original_error parameter
AcceptsOriginalError(exc) == exc = "ConversionError"

\* raise exc(..., original_error=e): the exception that comes out
RaiseWithOriginal(exc) ==
    IF AcceptsOriginalError(exc) THEN exc ELSE "TypeError"

\* handle_conversion_error: what the wrapper raises when the wrapped
\* function raised exc ("" when it returned)
handle_conversion_error(exc) ==
    IF exc = "" THEN ""
    ELSE IF IsConversionError(exc) THEN exc
    ELSE IF exc = "ValueError" THEN RaiseWithOriginal("ValidationError")
    ELSE IF exc \in {"FileNotFoundError", "MemoryError"}
         THEN RaiseWithOriginal("ProcessingError")
    ELSE RaiseWithOriginal("ConversionError")

\* an exception as the code of a subclass raises it: no formats, no
\* original error ("" stands for no exception)
Exc(e) ==
    [exc |-> e, from_format |-> None, to_format |-> None,
     original_error |-> ""]

\* the converter whose convert() is called: a BaseConverter subclass bound
\* to (binary, hex)
Converter == BaseInit("BaseConverter", binary, hex, Empty)

\* an except clause that wraps without keeping the original exception
WrapError_DropsOriginal(inst, e) ==
    IF e.exc = "" \/ IsConversionError(e.exc) THEN e
    ELSE [exc            |-> "ConversionError",
          from_format    |-> inst.from_format,
          to_format      |-> inst.to_format,
          original_error |-> ""]

\* the except clause of BaseConverter.convert around _convert: a
\* ConversionError is re-raised, anything else is wrapped
WrapError(inst, e) ==
    IF e.exc = "" \/ IsConversionError(e.exc) THEN e
    ELSE [exc            |-> "ConversionError",
          from_format    |-> inst.from_format,
          to_format      |-> inst.to_format,
          original_error |-> e.exc]

\* BaseConverter.validate_options
validate_options(supports_options, options) ==
    IF ~supports_options /\ options # {} THEN {} ELSE options

\* a convert() that calls _convert at once, with neither validate_input
\* nor validate_options before it
BaseConverter_convert_NoValidation(data, supports_options, options, hooks) ==
    LET w == WrapError(Converter, Exc(hooks.transform))
    IN  [exc    |-> handle_conversion_error(w.exc),
         error  |-> w,
         calls  |-> <<"_convert">>,
         passed |-> options]

\* BaseConverter.convert under @handle_conversion_error, for a subclass
\* whose validate_input (after the base check), validate_options and
\* _convert raise hooks.validate, hooks.options and hooks.transform ("" for
\* a normal return): the exception the caller sees, the methods called in
\* order, the options passed to _convert, and (error) the exception object
\* that left the body of convert
BaseConverter_convert(data, supports_options, options, hooks) ==
    LET v == IF data.t = "none" THEN "ValidationError" ELSE hooks.validate
        validated == IF hooks.options # "" THEN {}
                     ELSE validate_options(supports_options, options)
        w == WrapError(Converter, Exc(hooks.transform))
    IN  IF v # ""
        THEN [exc    |-> handle_conversion_error(v),
              error  |-> Exc(v),
              calls  |-> <<"validate_input">>,
              passed |-> {}]
        ELSE IF hooks.options # ""
        THEN [exc    |-> handle_conversion_error(hooks.options),
              error  |-> Exc(hooks.options),
              calls  |-> <<"validate_input", "validate_options">>,
              passed |-> {}]
        ELSE [exc    |-> handle_conversion_error(w.exc),
              error  |-> w,
              calls  |-> <<"validate_input", "validate_options",
                           "_convert">>,
              passed |-> validated]

(***************************************************************************)
(* The registry                                                            *)
(***************************************************************************)
\* ConversionRegistry.__init__
EmptyRegistry ==
    [converters        |-> <<>>,
     format_graph      |-> <<>>,
     format_converters |-> <<>>,
     registered_count  |-> 0,
     provenance        |-> <<>>]

\* the registry object as one value
Registry ==
    [converters        |-> converters,
     format_graph      |-> format_graph,
     format_converters |-> format_converters,
     registered_count  |-> registered_count,
     provenance        |-> provenance]

\* keys of the dict _converters
Pairs(convs) == {convs[i].pair : i \in 1..Len(convs)}

\* _converters[pair]
ClassOf(convs, pair) ==
    LET i == CHOOSE i \in 1..Len(convs) : convs[i].pair = pair
    IN  convs[i].cls

\* a store that keeps the first value of a key
DictSet_KeepFirst(convs, pair, cls) ==
    IF pair \in {convs[i].pair : i \in 1..Len(convs)} THEN convs
    ELSE Append(convs, [pair |-> pair, cls |-> cls])

\* a store that, when it replaces the class of a pair, also deletes the
\* reverse pair
DictSet_DropsReverse(convs, pair, cls) ==
    IF pair \in {convs[i].pair : i \in 1..Len(convs)}
    THEN SelectSeq([i \in 1..Len(convs) |->
                      IF convs[i].pair = pair
                      THEN [pair |-> pair, cls |-> cls] ELSE convs[i]],
                   LAMBDA e : e.pair = pair
                              \/ e.pair # <<pair[2], pair[1]>>)
    ELSE Append(convs, [pair |-> pair, cls |-> cls])

\* _converters[pair] = cls: a dict keeps the position of an existing key
DictSet(convs, pair, cls) ==
    IF pair \in Pairs(convs)
    THEN [i \in 1..Len(convs) |->
            IF convs[i].pair = pair THEN [pair |-> pair, cls |-> cls]
            ELSE convs[i]]
    ELSE Append(convs, [pair |-> pair, cls |-> cls])

\* d[key] of a defaultdict read without inserting
GetOr(d, key, default) == IF key \in DOMAIN d THEN d[key] ELSE default

\* d[key] = val
Put(d, key, val) ==
    [k \in DOMAIN d \cup {key} |-> IF k = key THEN val ELSE d[k]]

\* an edge store that assigns the set instead of adding to it
GraphAdd_Replaces(g, a, b) == Put(g, a, {b})

\* _format_graph[a].add(b)
GraphAdd(g, a, b) == Put(g, a, GetOr(g, a, {}) \cup {b})

\* _format_converters[a].append(cls)
IndexAppend(ix, a, cls) == Put(ix, a, Append(GetOr(ix, a, <<>>), cls))

\* getattr(converter_class, '_converter_from_format', None)
MetaFrom(meta, cls) == meta[cls].from_format
\* getattr(converter_class, '_converter_to_format', None)
MetaTo(meta, cls) == meta[cls].to_format

\* class attributes before any decorator ran
NoMeta ==
    [from_format |-> None, to_format |-> None, reversible |-> FALSE,
     decorated |-> FALSE]

\* the auto-reverse test with the reverse registration left out
AutoReverseApplies_Never(convs, cls, f, t, auto_reverse) == FALSE

\* the auto-reverse test without the "not already registered" condition
AutoReverseApplies_Overwrites(convs, cls, f, t, auto_reverse) ==
    auto_reverse /\ IsReversible(cls)

\* the auto-reverse test of register_converter
AutoReverseApplies(convs, cls, f, t, auto_reverse) ==
    /\ auto_reverse
    /\ IsReversible(cls)
    /\ <<t, f>> \notin Pairs(convs)

\* ConversionRegistry.register_converter: the registry afterwards and the
\* exception raised ("" when none)
register_converter(reg, meta, cls, from_arg, to_arg, auto_reverse) ==
    LET from0 == IF from_arg = None THEN MetaFrom(meta, cls) ELSE from_arg
        to0   == IF to_arg = None THEN MetaTo(meta, cls) ELSE to_arg
    IN
    IF Falsy(from0) \/ Falsy(to0)
    THEN [reg |-> reg, exc |-> "ConversionError",
          message |-> "missing format information"]
    ELSE
    LET f  == Normalize(from0)
        t  == Normalize(to0)
    IN
    IF ~IsBaseConverter(cls)
    THEN [reg |-> reg, exc |-> "ConversionError",
          message |-> "must inherit from BaseConverter"]
    ELSE
    LET c1 == DictSet(reg.converters, <<f, t>>, cls)
        g1 == GraphAdd(reg.format_graph, f, t)
        x1 == IndexAppend(IndexAppend(reg.format_converters, f, cls), t, cls)
        n1 == reg.registered_count + 1
        p1 == Put(reg.provenance, <<f, t>>, "explicit")
        rv == AutoReverseApplies(c1, cls, f, t, auto_reverse)
    IN
    [reg |-> [converters        |-> IF rv THEN DictSet(c1, <<t, f>>, cls)
                                    ELSE c1,
              format_graph      |-> IF rv THEN GraphAdd(g1, t, f) ELSE g1,
              format_converters |-> x1,
              registered_count  |-> IF rv THEN n1 + 1 ELSE n1,
              provenance        |-> IF rv
                                    THEN Put(p1, <<t, f>>, "auto")
                                    ELSE p1],
     exc |-> "",
     from_format |-> f, to_format |-> t]

\* ConversionRegistry.is_supported
is_supported(reg, from_format, to_format) ==
    <<Normalize(from_format), Normalize(to_format)>> \in Pairs(reg.converters)

\* a get_supported_formats that collects the source formats only
get_supported_formats_SourcesOnly(reg) ==
    sorted({p[1] : p \in Pairs(reg.converters)})

\* ConversionRegistry.get_supported_formats
get_supported_formats(reg) ==
    sorted(UNION {{p[1], p[2]} : p \in Pairs(reg.converters)})

\* UnsupportedFormatError.__init__
UnsupportedFormatError(from_format, to_format, available_formats) ==
    [exc               |-> "UnsupportedFormatError",
     from_format       |-> from_format,
     to_format         |-> to_format,
     available_formats |-> available_formats]

\* a get_converter that falls back on a path of two registered pairs
get_converter_TwoHop(reg, from_format, to_format) ==
    LET f == Normalize(from_format)
        t == Normalize(to_format)
        hops == {p \in Pairs(reg.converters) :
                    p[1] = f /\ <<p[2], t>> \in Pairs(reg.converters)}
    IN  IF <<f, t>> \in Pairs(reg.converters)
        THEN [exc |-> "", instance |-> Construct(ClassOf(reg.converters,
                                                         <<f, t>>), f, t)]
        ELSE IF hops # {}
        THEN [exc |-> "",
              instance |-> Construct(ClassOf(reg.converters,
                                             CHOOSE p \in hops : TRUE),
                                     f, t)]
        ELSE UnsupportedFormatError(f, t, get_supported_formats(reg))

\* get_converter raising the error without the list of formats
get_converter_NoHint(reg, from_format, to_format) ==
    LET f == Normalize(from_format)
        t == Normalize(to_format)
    IN  IF <<f, t>> \in Pairs(reg.converters)
        THEN [exc |-> "", instance |-> Construct(ClassOf(reg.converters,
                                                         <<f, t>>), f, t)]
        ELSE UnsupportedFormatError(f, t, <<>>)

\* ConversionRegistry.get_converter: the instance, or the error raised
get_converter(reg, from_format, to_format) ==
    LET f == Normalize(from_format)
        t == Normalize(to_format)
    IN  IF <<f, t>> \in Pairs(reg.converters)
        THEN [exc |-> "", instance |-> Construct(ClassOf(reg.converters,
                                                         <<f, t>>), f, t)]
        ELSE UnsupportedFormatError(f, t, get_supported_formats(reg))

\* one entry of list_conversions
ConversionInfo(entry) ==
    [from        |-> entry.pair[1],
     to          |-> entry.pair[2],
     description |-> Construct(entry.cls, entry.pair[1],
                               entry.pair[2]).description,
     converter   |-> entry.cls,
     reversible  |-> IsReversible(entry.cls)]

\* list.sort(key=lambda x: (x['from'], x['to'])): stable insertion sort
RECURSIVE InsertByKey(_, _)
InsertByKey(s, x) ==
    IF s = <<>> THEN <<x>>
    ELSE IF PairLess(<<x.from, x.to>>, <<s[Len(s)].from, s[Len(s)].to>>)
         THEN Append(InsertByKey(SubSeq(s, 1, Len(s) - 1), x), s[Len(s)])
         ELSE Append(s, x)

RECURSIVE SortByKey(_)
SortByKey(s) ==
    IF s = <<>> THEN <<>>
    ELSE InsertByKey(SortByKey(SubSeq(s, 1, Len(s) - 1)), s[Len(s)])

\* list_conversions without the final sort
list_conversions_Unsorted(reg) ==
    [i \in 1..Len(reg.converters) |-> ConversionInfo(reg.converters[i])]

\* a listing with one entry per two-way conversion: a pair whose reverse is
\* already listed is left out
list_conversions_SkipsReverse(reg) ==
    SortByKey(SelectSeq(
        [i \in 1..Len(reg.converters) |-> ConversionInfo(reg.converters[i])],
        LAMBDA e : ~\E j \in 1..Len(reg.converters) :
                      /\ reg.converters[j].pair = <<e.to, e.from>>
                      /\ PairLess(reg.converters[j].pair, <<e.from, e.to>>)))

\* ConversionRegistry.list_conversions
list_conversions(reg) ==
    SortByKey([i \in 1..Len(reg.converters) |->
                  ConversionInfo(reg.converters[i])])

\* get_conversions_for_format with the two directions exchanged
get_conversions_for_format_Swapped(reg, format_name) ==
    LET n == Normalize(format_name)
    IN  [from |-> sorted({p[2] : p \in {q \in Pairs(reg.converters) :
                                          q[1] = n}}),
         to   |-> sorted({p[1] : p \in {q \in Pairs(reg.converters) :
                                          q[2] = n}})]

\* ConversionRegistry.get_conversions_for_format
get_conversions_for_format(reg, format_name) ==
    LET n == Normalize(format_name)
    IN  [from |-> sorted({p[1] : p \in {q \in Pairs(reg.converters) :
                                          q[2] = n}}),
         to   |-> sorted({p[2] : p \in {q \in Pairs(reg.converters) :
                                          q[1] = n}})]

\* ConversionRegistry.get_stats
get_stats(reg) ==
    [total_converters |-> Len(reg.converters),
     total_formats    |-> Len(get_supported_formats(reg)),
     registered_count |-> reg.registered_count,
     converter_pairs  |-> Len(reg.converters)]

\* converters/__init__.py: _default_registry = ConversionRegistry(); no
\* statement of the package registers anything with it
default_registry == EmptyRegistry

(***************************************************************************)
(* State machine                                                           *)
(***************************************************************************)
Idle == [op |-> "init"]

Init ==
    /\ converters = EmptyRegistry.converters
    /\ format_graph = EmptyRegistry.format_graph
    /\ format_converters = EmptyRegistry.format_converters
    /\ registered_count = EmptyRegistry.registered_count
    /\ provenance = EmptyRegistry.provenance
    /\ class_meta = [c \in Classes |-> NoMeta]
    /\ result = Idle

SetRegistry(reg) ==
    /\ converters' = reg.converters
    /\ format_graph' = reg.format_graph
    /\ format_converters' = reg.format_converters
    /\ registered_count' = reg.registered_count
    /\ provenance' = reg.provenance

RegistryUnchanged ==
    UNCHANGED <<converters, format_graph, format_converters,
                registered_count, provenance>>

\* a call registry.register_converter(cls, from_arg, to_arg, auto_reverse)
RegisterConverter(cls, from_arg, to_arg, auto_reverse) ==
    /\ LET r == register_converter(Registry, class_meta, cls, from_arg,
                                   to_arg, auto_reverse)
       IN  /\ r.reg.registered_count <= MaxRegistered
           /\ SetRegistry(r.reg)
           /\ result' = IF r.exc = ""
                         THEN [op           |-> "register_converter",
                               cls          |-> cls,
                               from_format  |-> r.from_format,
                               to_format    |-> r.to_format,
                               auto_reverse |-> auto_reverse,
                               exc          |-> ""]
                         ELSE [op      |-> "register_converter",
                               cls     |-> cls,
                               exc     |-> r.exc,
                               message |-> r.message]
    /\ UNCHANGED class_meta

\* a clear() that empties the three maps and keeps the counter
Clear_KeepsCounter ==
    /\ SetRegistry([EmptyRegistry EXCEPT
                       !.registered_count = registered_count])
    /\ result' = [op |-> "clear", removed |-> Len(converters)]
    /\ UNCHANGED class_meta

\* ConversionRegistry.clear; removed records how many pairs there were
Clear ==
    /\ SetRegistry([EmptyRegistry EXCEPT !.registered_count = 0])
    /\ result' = [op |-> "clear", removed |-> Len(converters)]
    /\ UNCHANGED class_meta

\* an is_supported that reads _format_graph[from_format], which makes the
\* defaultdict insert the key
IsSupported_ReadsGraph(from_format, to_format) ==
    /\ result' = [op          |-> "is_supported",
                  from_format |-> Normalize(from_format),
                  to_format   |-> Normalize(to_format),
                  ret |-> Normalize(to_format)
                            \in GetOr(format_graph,
                                      Normalize(from_format), {})]
    /\ format_graph' = Put(format_graph, Normalize(from_format),
                           GetOr(format_graph, Normalize(from_format), {}))
    /\ UNCHANGED <<converters, format_converters, registered_count,
                   provenance, class_meta>>

\* a call registry.is_supported(from_format, to_format)
IsSupported(from_format, to_format) ==
    /\ result' = [op          |-> "is_supported",
                  from_format |-> Normalize(from_format),
                  to_format   |-> Normalize(to_format),
                  ret |-> is_supported(Registry, from_format, to_format)]
    /\ RegistryUnchanged
    /\ UNCHANGED class_meta

\* a call registry.get_converter(from_format, to_format)
GetConverter(from_format, to_format) ==
    /\ result' = [op          |-> "get_converter",
                  from_format |-> Normalize(from_format),
                  to_format   |-> Normalize(to_format),
                  ret |-> get_converter(Registry, from_format, to_format)]
    /\ RegistryUnchanged
    /\ UNCHANGED class_meta

\* ConversionRegistry.convert
registry_convert(reg, data, from_format, to_format) ==
    LET c == get_converter(reg, from_format, to_format)
    IN  IF c.exc # "" THEN Ran(Raise(c.exc), "none")
        ELSE convert(c.instance, data)

\* a call registry.get_supported_formats()
GetSupportedFormats ==
    /\ result' = [op |-> "get_supported_formats",
                  ret |-> get_supported_formats(Registry)]
    /\ RegistryUnchanged
    /\ UNCHANGED class_meta

\* a call registry.list_conversions()
ListConversions ==
    /\ result' = [op |-> "list_conversions",
                  ret |-> list_conversions(Registry)]
    /\ RegistryUnchanged
    /\ UNCHANGED class_meta

\* a call registry.get_conversions_for_format(format_name)
GetConversionsForFormat(format_name) ==
    /\ result' = [op |-> "get_conversions_for_format",
                  format_name |-> format_name,
                  ret |-> get_conversions_for_format(Registry, format_name)]
    /\ RegistryUnchanged
    /\ UNCHANGED class_meta

\* a call registry.convert(data, from_format, to_format)
Convert(data, from_format, to_format) ==
    /\ result' = [op          |-> "convert",
                  input       |-> data,
                  from_format |-> Normalize(from_format),
                  to_format   |-> Normalize(to_format),
                  ret         |-> registry_convert(Registry, data,
                                                   from_format, to_format)]
    /\ RegistryUnchanged
    /\ UNCHANGED class_meta

\* the caller feeds the encoding of a bytes value back through the
\* opposite pair (test_basic_conversions, tests 1 and 2)
ConvertBack ==
    /\ result.op = "convert"
    /\ result.ret.exc = ""
    /\ result.input.t = "bytes"
    /\ result' = [op          |-> "convert_back",
                  origin      |-> result.input,
                  input       |-> result.ret.value,
                  from_format |-> result.to_format,
                  to_format   |-> result.from_format,
                  ret         |-> registry_convert(Registry,
                                     result.ret.value, result.to_format,
                                     result.from_format)]
    /\ RegistryUnchanged
    /\ UNCHANGED class_meta

\* the arguments of each class's @register_converter(...) line
DecoratorArgs(cls) ==
    CASE cls = "BinaryBase64Converter" ->
            [from_format |-> binary, to_format |-> base64,
             reversible |-> TRUE]
      [] cls = "BinaryHexConverter" ->
            [from_format |-> binary, to_format |-> hex, reversible |-> TRUE]
      [] cls = "DecimalBinaryConverter" ->
            [from_format |-> decimal, to_format |-> binary_num,
             reversible |-> TRUE]
      [] cls = "Base64ToBinaryConverter" ->
            [from_format |-> base64, to_format |-> binary,
             reversible |-> FALSE]

\* the decorator returned by @register_converter(from_format, to_format,
\* description, reversible), applied to cls when its module is loaded
Decorate(cls, from_format, to_format, reversible) ==
    /\ ~class_meta[cls].decorated
    /\ LET meta == [class_meta EXCEPT ![cls] =
                       [from_format |-> from_format,
                        to_format   |-> to_format,
                        reversible  |-> reversible,
                        decorated   |-> TRUE]]
           r == register_converter(Registry, meta, cls, from_format,
                                   to_format, reversible)
       IN  /\ class_meta' = meta
           /\ SetRegistry(r.reg)
           /\ result' = [op         |-> "decorator",
                         cls        |-> cls,
                         reversible |-> reversible,
                         logged     |-> r.exc,
                         exc        |-> ""]

\* a call registry.get_stats()
GetStats ==
    /\ result' = [op |-> "get_stats", ret |-> get_stats(Registry)]
    /\ RegistryUnchanged
    /\ UNCHANGED class_meta

\* a call converters.get_converter(from_format, to_format) of the package
PackageGetConverter(from_format, to_format) ==
    /\ result' = [op          |-> "package_get_converter",
                  from_format |-> Normalize(from_format),
                  to_format   |-> Normalize(to_format),
                  ret |-> get_converter(default_registry, from_format,
                                        to_format)]
    /\ RegistryUnchanged
    /\ UNCHANGED class_meta

\* a call converters.convert(data, from_format, to_format) of the package
PackageConvert(data, from_format, to_format) ==
    /\ result' = [op          |-> "package_convert",
                  input       |-> data,
                  from_format |-> Normalize(from_format),
                  to_format   |-> Normalize(to_format),
                  ret |-> registry_convert(default_registry, data,
                                           from_format, to_format)]
    /\ RegistryUnchanged
    /\ UNCHANGED class_meta

\* a call converter.convert(data, **options) on an instance of a
\* BaseConverter subclass whose methods raise as hooks says
BaseConvert(data, supports_options, options, hooks) ==
    /\ result' = [op               |-> "base_convert",
                  input            |-> data,
                  supports_options |-> supports_options,
                  options          |-> options,
                  hooks            |-> hooks,
                  ret |-> BaseConverter_convert(data, supports_options,
                                                options, hooks)]
    /\ RegistryUnchanged
    /\ UNCHANGED class_meta

\* a call cls(from_format, to_format).convert(data) on an instance made
\* the way get_converter makes it
InstanceConvert(cls, from_format, to_format, data) ==
    /\ result' = [op       |-> "instance_convert",
                  instance |-> Construct(cls, from_format, to_format),
                  input    |-> data,
                  ret |-> convert(Construct(cls, from_format, to_format),
                                  data)]
    /\ RegistryUnchanged
    /\ UNCHANGED class_meta

\* a call cls(from_format, to_format).create_reverse()
CreateReverse(cls, from_format, to_format) ==
    /\ result' = [op       |-> "create_reverse",
                  instance |-> Construct(cls, from_format, to_format),
                  ret |-> create_reverse(
                             Construct(cls, from_format, to_format))]
    /\ RegistryUnchanged
    /\ UNCHANGED class_meta

(***************************************************************************)
(* Specification of a registry driven by direct calls                      *)
(***************************************************************************)
\* the raw names callers pass to register_converter
RawNames == {BINARY_padded, Base64_mixed}

\* the classes callers pass to register_converter
RegisteredClasses == Classes \ {"DecimalBinaryConverter"}

Next ==
    \/ \E cls \in RegisteredClasses,
          f \in RawNames \cup {None}, t \in RawNames \cup {None},
          ar \in BOOLEAN :
            RegisterConverter(cls, f, t, ar)
    \/ Clear

Spec == Init /\ [][Next]_vars

(***************************************************************************)
(* Specification of the global registry filled by the decorators when the  *)
(* converter modules are loaded, then queried                              *)
(***************************************************************************)
\* longest bytes input handed to convert
MaxBytes == 2

\* the byte values inputs are made of ('H' and 0xff)
ByteValues == {72, 255}

RECURSIVE SeqsUpTo(_, _)
SeqsUpTo(S, n) ==
    IF n = 0 THEN {<<>>}
    ELSE SeqsUpTo(S, n - 1)
         \cup {Append(q, x) : q \in {p \in SeqsUpTo(S, n - 1) :
                                       Len(p) = n - 1}, x \in S}

\* the values converted: bytes, the str "42", "101010" and "SGk=", the
\* int 42 and None
DataInputs ==
    {PyBytes(b) : b \in SeqsUpTo(ByteValues, MaxBytes)}
    \cup {PyStr(<<52, 50>>), PyStr(<<49, 48, 49, 48, 49, 48>>),
          PyStr(<<83, 71, 107, 61>>), PyInt(42), NoneData}

\* the classes defined under a @register_converter decorator
DecoratedClasses == {"BinaryBase64Converter", "BinaryHexConverter",
                     "DecimalBinaryConverter", "Base64ToBinaryConverter"}

\* the names callers pass to the lookups
LookupNames == {BINARY_padded, Base64_mixed, hex, decimal, binary_num}

\* the pairs callers pass to convert: both directions of each decorated
\* pair and the two-hop pair base64 -> hex
ConvertPairs ==
    {<<binary, base64>>, <<base64, binary>>, <<binary, hex>>,
     <<hex, binary>>, <<decimal, binary_num>>, <<binary_num, decimal>>,
     <<base64, hex>>}

\* the values handed to the package-level convert: b"H" and "42"
PackageInputs == {PyBytes(<<72>>), PyStr(<<52, 50>>)}

NextLoad ==
    \/ \E cls \in DecoratedClasses :
          Decorate(cls, DecoratorArgs(cls).from_format,
                   DecoratorArgs(cls).to_format,
                   DecoratorArgs(cls).reversible)
    \/ \E f \in LookupNames, t \in LookupNames : IsSupported(f, t)
    \/ \E f \in LookupNames, t \in LookupNames : GetConverter(f, t)
    \/ GetSupportedFormats
    \/ ListConversions
    \/ \E n \in LookupNames : GetConversionsForFormat(n)
    \/ \E d \in DataInputs, p \in ConvertPairs : Convert(d, p[1], p[2])
    \/ ConvertBack
    \/ GetStats
    \/ \E p \in ConvertPairs : PackageGetConverter(p[1], p[2])
    \/ \E d \in PackageInputs, p \in ConvertPairs :
          PackageConvert(d, p[1], p[2])

SpecLoad == Init /\ [][NextLoad]_vars

(***************************************************************************)
(* Specification of a registry set up by decorators and by direct calls,   *)
(* some of which fail                                                      *)
(***************************************************************************)
\* the classes registered: a reversible converter, a one-way converter and
\* a class that is no converter
SetupClasses ==
    {"BinaryHexConverter", "Base64ToBinaryConverter", "NotAConverter"}

\* the decorator lines applied: the one of BinaryHexConverter, a decorator
\* without format names on a converter, and a decorator on a class that
\* does not inherit from BaseConverter
SetupDecorations ==
    {[cls |-> "BinaryHexConverter", from_format |-> binary,
      to_format |-> hex, reversible |-> TRUE],
     [cls |-> "Base64ToBinaryConverter", from_format |-> None,
      to_format |-> None, reversible |-> FALSE],
     [cls |-> "NotAConverter", from_format |-> binary,
      to_format |-> hex, reversible |-> FALSE]}

\* the names callers pass: none, a whitespace-only name, and "Base64"
SetupNames == {None, Blank, Base64_mixed}

NextSetup ==
    \/ \E d \in SetupDecorations :
          Decorate(d.cls, d.from_format, d.to_format, d.reversible)
    \/ \E cls \in SetupClasses, f \in SetupNames, t \in SetupNames :
          RegisterConverter(cls, f, t, TRUE)
    \/ Clear

SpecSetup == Init /\ [][NextSetup]_vars

(***************************************************************************)
(* Specification of the converter contract: BaseConverter.convert called   *)
(* on subclasses whose methods return or raise                             *)
(***************************************************************************)
\* what a method of a subclass may raise
Raised ==
    {"ValidationError", "ConversionError", "ConfigurationError",
     "UnsupportedFormatError", "ValueError", "FileNotFoundError",
     "MemoryError", "KeyError"}

\* subclasses: one method raising anything of Raised, or any combination
\* of methods raising ValidationError or ValueError
HookOutcomes ==
    {h \in [validate : Raised \cup {""}, options : Raised \cup {""},
            transform : Raised \cup {""}] :
        \/ Cardinality({k \in {"validate", "options", "transform"} :
                           h[k] # ""}) <= 1
        \/ {h.validate, h.options, h.transform}
             \subseteq {"", "ValidationError", "ValueError"}}

\* the data converted: None, b"", "" and b"H"
ContractInputs == {NoneData, PyBytes(<<>>), PyStr(<<>>), PyBytes(<<72>>)}

\* the keyword options of the call: none, or indent=...
OptionSets == {{}, {"indent"}}

\* the classes instantiated directly, the names they are bound to and the
\* data converted: None, b"H" and "SA=="
InstanceClasses ==
    {"BinaryBase64Converter", "BinaryHexConverter",
     "Base64ToBinaryConverter"}
InstanceNames == {binary, base64, hex}
InstanceInputs == {NoneData, PyBytes(<<72>>), PyStr(<<83, 65, 61, 61>>)}

NextConvert ==
    \/ \E d \in ContractInputs, so \in BOOLEAN, o \in OptionSets,
          h \in HookOutcomes :
            BaseConvert(d, so, o, h)
    \/ \E cls \in InstanceClasses, f \in InstanceNames,
          t \in InstanceNames, d \in InstanceInputs :
            InstanceConvert(cls, f, t, d)
    \/ \E cls \in {c \in InstanceClasses : IsReversible(c)},
          f \in InstanceNames, t \in InstanceNames :
            CreateReverse(cls, f, t)

SpecConvert == Init /\ [][NextConvert]_vars

(***************************************************************************)
(* Properties                                                              *)
(***************************************************************************)
\* the last call was a successful register_converter
Registered ==
    result.op = "register_converter" /\ result.exc = ""

\* all format names occurring in a registered pair
KnownFormats == UNION {{p[1], p[2]} : p \in Pairs(converters)}

\* s is strictly ascending
Ascending(s) == \A i \in 1..(Len(s) - 1) : StrLess(s[i], s[i + 1])

\* C1 as claimed: after any successful registration of (A,B) made with
\* auto_reverse=True, is_supported(A,B) and is_supported(B,A) both hold.
C1_AutoReversePresence_Claimed ==
    (Registered /\ result.auto_reverse) =>
        /\ is_supported(Registry, result.from_format, result.to_format)
        /\ is_supported(Registry, result.to_format, result.from_format)

\* C1 amended: after any successful registration of a ReversibleConverter
\* subclass for (A,B) made with auto_reverse=True, is_supported(A,B) and
\* is_supported(B,A) both hold.
C1_AutoReversePresence ==
    (Registered /\ result.auto_reverse /\ IsReversible(result.cls)) =>
        /\ is_supported(Registry, result.from_format, result.to_format)
        /\ is_supported(Registry, result.to_format, result.from_format)

\* a reversible class was just registered and its reverse pair was derived
C1_Witness ==
    /\ Registered /\ result.auto_reverse /\ IsReversible(result.cls)
    /\ result.from_format # result.to_format
    /\ <<result.to_format, result.from_format>> \in DOMAIN provenance
    /\ provenance[<<result.to_format, result.from_format>>] = "auto"

\* C2: a registration of a reversible converter for (A,B) with auto_reverse
\* leaves an already registered reverse pair (B,A) mapped to the converter
\* it had, however many such registrations follow one another.
C2_ExplicitReverseKept ==
    [][(/\ result'.op = "register_converter"
        /\ result'.exc = ""
        /\ result'.auto_reverse
        /\ IsReversible(result'.cls)
        /\ result'.from_format # result'.to_format
        /\ <<result'.to_format, result'.from_format>> \in Pairs(converters))
       => /\ <<result'.to_format, result'.from_format>>
               \in Pairs(converters')
          /\ ClassOf(converters', <<result'.to_format, result'.from_format>>)
               = ClassOf(converters,
                         <<result'.to_format, result'.from_format>>)]_vars

\* a reversible class was registered over an explicit reverse pair that
\* maps to another class
C2_Witness ==
    /\ Registered /\ result.auto_reverse /\ IsReversible(result.cls)
    /\ result.from_format # result.to_format
    /\ <<result.to_format, result.from_format>> \in Pairs(converters)
    /\ provenance[<<result.to_format, result.from_format>>] = "explicit"
    /\ ClassOf(converters, <<result.to_format, result.from_format>>)
         # result.cls

\* the pair a reversible class is decorated for
DeclaredPair(cls) ==
    <<DecoratorArgs(cls).from_format, DecoratorArgs(cls).to_format>>

\* C3: for a reversible converter registered for (A,B), convert on (A,B)
\* runs the forward transform and convert on the auto-registered pair
\* (B,A) runs the backward transform ("101010" from binary_num to decimal
\* gives 42).
C3_ReverseRunsBackward ==
    (/\ result.op = "convert"
     /\ <<result.from_format, result.to_format>> \in Pairs(converters)
     /\ IsReversible(ClassOf(converters,
                             <<result.from_format, result.to_format>>)))
    => LET cls == ClassOf(converters,
                          <<result.from_format, result.to_format>>)
       IN  /\ (/\ <<result.from_format, result.to_format>>
                    = DeclaredPair(cls)
               /\ result.ret.exc # "ValidationError")
              => result.ret = Ran(convert_a_to_b(cls, result.input),
                                  "a_to_b")
           /\ (/\ <<result.to_format, result.from_format>>
                    = DeclaredPair(cls)
               /\ result.input.t = "str")
              => result.ret = Ran(convert_b_to_a(cls, result.input),
                                  "b_to_a")

\* C4: get_converter(f, t) on a registered pair returns an instance whose
\* from_format is f and whose to_format is t (normalized).
C4_InstanceBoundToPair ==
    (result.op = "get_converter" /\ result.ret.exc = "") =>
        /\ result.ret.instance.from_format = result.from_format
        /\ result.ret.instance.to_format = result.to_format

\* C5: for binary/base64 and binary/hex registered with reversible=True,
\* converting bytes x from binary to the encoding and back gives x.
C5_RoundTrip ==
    (/\ result.op = "convert_back"
     /\ result.origin.t = "bytes"
     /\ result.to_format = binary
     /\ result.from_format \in {base64, hex}
     /\ <<binary, result.from_format>> \in Pairs(converters)
     /\ class_meta[ClassOf(converters,
                           <<binary, result.from_format>>)].reversible)
    => /\ result.ret.exc = ""
       /\ result.ret.value = result.origin

\* C6: once a reversible class C has been registered for (A,B) with
\* auto_reverse, (B,A) is registered and maps to C too, unless (B,A) was
\* registered explicitly.
C6_ReversePointsToSameClass ==
    (Registered /\ result.auto_reverse /\ IsReversible(result.cls)) =>
        /\ <<result.to_format, result.from_format>> \in Pairs(converters)
        /\ \/ ClassOf(converters, <<result.to_format, result.from_format>>)
                = result.cls
           \/ provenance[<<result.to_format, result.from_format>>]
                = "explicit"

\* C7: get_converter on a pair that is not registered fails with
\* UnsupportedFormatError whose available_formats is get_supported_formats()
\* at the time of the call: the ascending list of all known format names,
\* empty on an empty registry.
C7_UnknownPairError ==
    (/\ result.op = "get_converter"
     /\ <<result.from_format, result.to_format>> \notin Pairs(converters))
    => /\ result.ret.exc = "UnsupportedFormatError"
       /\ result.ret.available_formats = get_supported_formats(Registry)
       /\ Ascending(result.ret.available_formats)
       /\ Range(result.ret.available_formats) = KnownFormats
       /\ (converters = <<>> => result.ret.available_formats = <<>>)

\* an unknown pair was looked up in a registry that knows several formats
C7_Witness ==
    /\ result.op = "get_converter"
    /\ result.ret.exc = "UnsupportedFormatError"
    /\ Len(result.ret.available_formats) >= 3
    /\ result.from_format \in KnownFormats

\* the pairs registered after a successful registration of cls for (f, t)
PairsAfterRegistering(cls, f, t, auto_reverse) ==
    Pairs(converters) \cup {<<f, t>>}
    \cup IF auto_reverse /\ IsReversible(cls) THEN {<<t, f>>} ELSE {}

\* the converter classes and names a caller may pass for a registered pair
Overrides ==
    {c \in [cls : {x \in RegisteredClasses : IsBaseConverter(x)},
            f : RawNames, t : RawNames, auto_reverse : BOOLEAN] :
        <<Normalize(c.f), Normalize(c.t)>> \in Pairs(converters)}

\* C8 as claimed: registering a second converter for a registered pair
\* raises nothing, makes get_converter return the new class and leaves the
\* number of registered pairs unchanged.
C8_OverrideKeepsPairCount_Claimed ==
    \A c \in Overrides :
        LET r == register_converter(Registry, class_meta, c.cls, c.f, c.t,
                                    c.auto_reverse)
        IN  /\ r.exc = ""
            /\ get_converter(r.reg, c.f, c.t).exc = ""
            /\ get_converter(r.reg, c.f, c.t).instance.cls = c.cls
            /\ Cardinality(Pairs(r.reg.converters))
                 = Cardinality(Pairs(converters))

\* C8 amended: registering a second converter for a registered pair raises
\* nothing and makes get_converter return the new class; the pair keeps one
\* entry, and the only pair that can be added is the auto-derived reverse
\* pair of a reversible converter registered with auto_reverse.
C8_OverrideReplaces ==
    \A c \in Overrides :
        LET r == register_converter(Registry, class_meta, c.cls, c.f, c.t,
                                    c.auto_reverse)
        IN  /\ r.exc = ""
            /\ get_converter(r.reg, c.f, c.t).exc = ""
            /\ get_converter(r.reg, c.f, c.t).instance.cls = c.cls
            /\ Len(r.reg.converters) = Cardinality(Pairs(r.reg.converters))
            /\ Pairs(r.reg.converters)
                 = PairsAfterRegistering(c.cls, Normalize(c.f),
                                         Normalize(c.t), c.auto_reverse)

\* one pair is stored, it was registered twice, and the class registered
\* first is not the class registered last
C8_Witness ==
    /\ Registered
    /\ Len(converters) = 1
    /\ registered_count = 2
    /\ ClassOf(converters, <<result.from_format, result.to_format>>)
         = result.cls
    /\ format_converters[result.from_format][1] # result.cls

\* names that differ from their normalized form
NameVariants == {BINARY_padded, Base64_mixed, Blank}

\* C9: register_converter, get_converter, is_supported and
\* get_conversions_for_format give the same result for a name as for its
\* lower-cased, trimmed form.
C9_NamesNormalized ==
    \A f \in NameVariants, t \in NameVariants :
        /\ is_supported(Registry, f, t)
             = is_supported(Registry, Normalize(f), Normalize(t))
        /\ get_converter(Registry, f, t)
             = get_converter(Registry, Normalize(f), Normalize(t))
        /\ get_conversions_for_format(Registry, f)
             = get_conversions_for_format(Registry, Normalize(f))
        /\ \A cls \in {"BinaryHexConverter"}, ar \in BOOLEAN :
             LET raw == register_converter(Registry, class_meta, cls, f, t,
                                           ar)
                 nrm == register_converter(Registry, class_meta, cls,
                                           Normalize(f), Normalize(t), ar)
             IN  raw.exc = nrm.exc /\ raw.reg = nrm.reg

\* C10: a call of list_conversions() leaves the registry as it was and
\* returns exactly one entry per registered pair in strictly ascending
\* (from, to) order, a list fixed by the set of registered pairs and
\* not by the order of their registration; a second call with no
\* registration or clear in between therefore returns the identical list.
C10_ListingStable ==
    [][result'.op = "list_conversions" =>
         /\ Registry' = Registry
         /\ Len(result'.ret) = Len(converters)
         /\ Range(result'.ret)
              = {ConversionInfo(converters[i]) : i \in 1..Len(converters)}
         /\ \A i \in 1..(Len(result'.ret) - 1) :
               PairLess(<<result'.ret[i].from, result'.ret[i].to>>,
                        <<result'.ret[i + 1].from,
                          result'.ret[i + 1].to>>)]_vars

\* a listing was returned whose order is not the order of registration
C10_Witness ==
    /\ result.op = "list_conversions"
    /\ Len(result.ret) >= 3
    /\ \E i \in 1..Len(converters) :
          converters[i].pair # <<result.ret[i].from, result.ret[i].to>>

\* C11: a pair registered through the @register_converter decorator is
\* resolvable by the package-level get_converter and convert, as it is by
\* the registry the decorator fills.
C11_SharedRegistry ==
    /\ (/\ result.op = "package_get_converter"
        /\ <<result.from_format, result.to_format>> \in Pairs(converters))
       => result.ret.exc = ""
    /\ (/\ result.op = "package_convert"
        /\ <<result.from_format, result.to_format>> \in Pairs(converters))
       => result.ret = registry_convert(Registry, result.input,
                                        result.from_format,
                                        result.to_format)

\* the exceptions the taxonomy allows a caller of convert to see
Taxonomy ==
    {"ValidationError", "UnsupportedFormatError", "ConfigurationError",
     "ConversionError"}

\* C12: whatever validate_input, validate_options or _convert raises, the
\* caller of BaseConverter.convert sees a result or one of ValidationError,
\* UnsupportedFormatError, ConfigurationError and ConversionError.
C12_OnlyTaxonomyEscapes ==
    result.op = "base_convert" => result.ret.exc \in Taxonomy \cup {""}

\* what input validation raises: the base check, then the subclass's
ValidationOutcome ==
    IF result.input.t = "none" THEN "ValidationError"
    ELSE result.hooks.validate

\* C13: convert calls validate_input, validate_options and _convert in this
\* order; a ValidationError of the validation (always raised for None)
\* reaches the caller as it is and _convert is not called; empty bytes and
\* the empty str pass the base validation and reach _convert, with the
\* normalized options.
C13_ValidateThenTransform ==
    result.op = "base_convert" =>
        /\ \E n \in 1..3 :
              result.ret.calls
                = SubSeq(<<"validate_input", "validate_options",
                           "_convert">>, 1, n)
        /\ ValidationOutcome = "ValidationError"
              => /\ result.ret.exc = "ValidationError"
                 /\ result.ret.calls = <<"validate_input">>
        /\ (/\ result.input \in {PyBytes(<<>>), PyStr(<<>>)}
            /\ result.hooks.validate = ""
            /\ result.hooks.options = "")
              => /\ result.ret.calls[Len(result.ret.calls)] = "_convert"
                 /\ result.ret.passed
                      = validate_options(result.supports_options,
                                         result.options)

\* None was handed to a converter whose _convert would have raised
C13_Witness ==
    /\ result.op = "base_convert"
    /\ result.input = NoneData
    /\ result.hooks.transform = "ValueError"
    /\ result.ret.exc = "ValidationError"
    /\ result.ret.calls = <<"validate_input">>

\* C14: when the registration performed by the @register_converter
\* decorator fails, the decorator raises that error to its caller.
C14_DecoratorErrorsPropagate ==
    result.op = "decorator" => result.exc = result.logged

\* C15: a registration that fails raises ConfigurationError.
C15_RegistrationErrorKind ==
    (result.op = "register_converter" /\ result.exc # "")
        => result.exc = "ConfigurationError"

\* the name register_converter works with: the argument, or the class
\* attribute when the argument is None
Resolved(arg, attribute) == IF arg = None THEN attribute ELSE arg

\* C16: register_converter raises and leaves the pair map, the format
\* graph, the reverse index and the counter as they were when a format is
\* resolved neither from the arguments nor from the class metadata, or
\* when the class is not a BaseConverter subclass; when it succeeds, an
\* explicit argument is the name registered, whatever the class metadata.
C16_FailedRegistrationChangesNothing ==
    \A cls \in SetupClasses, f \in SetupNames \cup {Empty},
       t \in SetupNames \cup {Empty}, ar \in BOOLEAN :
        LET r == register_converter(Registry, class_meta, cls, f, t, ar)
        IN  /\ (\/ Resolved(f, class_meta[cls].from_format) \in {None, Empty}
                \/ Resolved(t, class_meta[cls].to_format) \in {None, Empty}
                \/ cls = "NotAConverter")
               => /\ r.exc # ""
                  /\ r.reg.converters = converters
                  /\ r.reg.format_graph = format_graph
                  /\ r.reg.format_converters = format_converters
                  /\ r.reg.registered_count = registered_count
            /\ r.exc = ""
               => /\ f # None => r.from_format = Normalize(f)
                  /\ t # None => r.to_format = Normalize(t)
                  /\ <<r.from_format, r.to_format>>
                       \in Pairs(r.reg.converters)
                  /\ ClassOf(r.reg.converters,
                             <<r.from_format, r.to_format>>) = cls

\* a registration failed in a registry where the decorated
\* BinaryHexConverter (binary -> hex) is registered under an explicit
\* source name
C16_Witness ==
    /\ result.op = "register_converter"
    /\ result.exc = "ConversionError"
    /\ class_meta["BinaryHexConverter"].decorated
    /\ \E i \in 1..Len(converters) :
          /\ converters[i].cls = "BinaryHexConverter"
          /\ converters[i].pair[1] = base64
          /\ provenance[converters[i].pair] = "explicit"

\* C17: no registered pair contains an empty format name.
C17_NoEmptyNames ==
    \A p \in Pairs(converters) : p[1] # Empty /\ p[2] # Empty

C19_ClearEmptiesEverything ==
    result.op = "clear" =>
        /\ \A f \in RawNames \cup LookupNames,
              t \in RawNames \cup LookupNames :
              ~is_supported(Registry, f, t)
        /\ get_supported_formats(Registry) = <<>>
        /\ list_conversions(Registry) = <<>>
        /\ converters = <<>>
        /\ DOMAIN format_graph = {}
        /\ DOMAIN format_converters = {}
        /\ registered_count = 0
        /\ \A k \in DOMAIN get_stats(Registry) : get_stats(Registry)[k] = 0

\* clear() was called on a registry that held three pairs or more
C19_Witness ==
    /\ result.op = "clear"
    /\ result.removed >= 3

\* C20: get_supported_formats() returns, ascending and without duplicates,
\* exactly the names that are source or target of a registered pair,
\* auto-derived reverse pairs included; get_stats() reports total_formats
\* equal to the length of that list and total_converters equal to the
\* number of registered pairs.
C20_FormatsAndStats ==
    /\ result.op = "get_supported_formats" =>
          /\ Ascending(result.ret)
          /\ Range(result.ret) = KnownFormats
    /\ result.op = "get_stats" =>
          /\ result.ret.total_formats = Cardinality(KnownFormats)
          /\ result.ret.total_formats = Len(get_supported_formats(Registry))
          /\ result.ret.total_converters = Cardinality(Pairs(converters))

\* get_stats() was called on a registry that holds a one-way pair next to
\* pairs with auto-derived reverses
C20_Witness ==
    /\ result.op = "get_stats"
    /\ result.ret.total_formats >= 3
    /\ \E p \in Pairs(converters) : provenance[p] = "auto"
    /\ \E p \in Pairs(converters) : <<p[2], p[1]>> \notin Pairs(converters)

\* C21: list_conversions() returns exactly one entry per registered pair,
\* the auto-derived reverse pairs included; the 'from' and 'to' of the
\* entries are those pairs, and the list is in ascending (from, to) order.
C21_OneEntryPerPair ==
    result.op = "list_conversions" =>
        /\ Len(result.ret) = Len(converters)
        /\ \A p \in Pairs(converters) :
              Cardinality({i \in 1..Len(result.ret) :
                  <<result.ret[i].from, result.ret[i].to>> = p}) = 1
        /\ \A i \in 1..Len(result.ret) :
              <<result.ret[i].from, result.ret[i].to>> \in Pairs(converters)
        /\ \A i \in 1..(Len(result.ret) - 1) :
              \/ StrLess(result.ret[i].from, result.ret[i + 1].from)
              \/ /\ result.ret[i].from = result.ret[i + 1].from
                 /\ StrLess(result.ret[i].to, result.ret[i + 1].to)

\* a listing of a registry holding an auto-derived reverse pair and two
\* pairs with the same source, stored in descending order
C21_Witness ==
    /\ result.op = "list_conversions"
    /\ \E p \in Pairs(converters) :
          /\ provenance[p] = "auto"
          /\ \E i \in 1..Len(result.ret) :
                <<result.ret[i].from, result.ret[i].to>> = p
    /\ \E i, j \in 1..Len(converters) :
          /\ i < j
          /\ converters[i].pair[1] = converters[j].pair[1]
          /\ StrLess(converters[j].pair[2], converters[i].pair[2])

\* C22: get_conversions_for_format(name) returns under 'from' the sorted,
\* duplicate-free formats f with (f, name) registered and under 'to' the
\* sorted, duplicate-free formats t with (name, t) registered; for a name
\* in no registered pair both lists are empty.
C22_ConversionsForFormat ==
    result.op = "get_conversions_for_format" =>
        LET n == Normalize(result.format_name)
        IN  /\ Ascending(result.ret.from)
            /\ Ascending(result.ret.to)
            /\ Range(result.ret.from)
                 = {f \in KnownFormats : <<f, n>> \in Pairs(converters)}
            /\ Range(result.ret.to)
                 = {t \in KnownFormats : <<n, t>> \in Pairs(converters)}
            /\ n \notin KnownFormats
                 => result.ret = [from |-> <<>>, to |-> <<>>]

\* a format that two formats convert into and that converts into one only
C22_Witness ==
    /\ result.op = "get_conversions_for_format"
    /\ Len(result.ret.from) = 2
    /\ Len(result.ret.to) = 1

\* a name that occurs in no pair of a non-empty registry
C22_WitnessUnknown ==
    /\ result.op = "get_conversions_for_format"
    /\ converters # <<>>
    /\ Normalize(result.format_name) \notin KnownFormats
    /\ result.ret = [from |-> <<>>, to |-> <<>>]

\* the pairs (from, to) with to in _format_graph[from]
GraphEdges == UNION {{<<f, t>> : t \in format_graph[f]} :
                        f \in DOMAIN format_graph}

\* C23: in every reachable state the format graph and the pair map agree:
\* to is in graph[from] exactly when (from, to) is a registered pair.
C23_GraphMatchesPairs == GraphEdges = Pairs(converters)

\* a registry holding an auto-derived pair and two pairs with the same
\* source
C23_Witness ==
    /\ Registered
    /\ GraphEdges # {}
    /\ \E p \in Pairs(converters) : provenance[p] = "auto"
    /\ \E p, q \in Pairs(converters) : p[1] = q[1] /\ p[2] # q[2]

\* the instance is bound to its declared pair, in one direction or the
\* other
BoundToDeclaredPair(inst) ==
    \/ inst.from_format = inst.format_a /\ inst.to_format = inst.format_b
    \/ inst.from_format = inst.format_b /\ inst.to_format = inst.format_a

\* C24: convert on an instance of a reversible class bound to a pair that
\* is neither (format_a, format_b) nor (format_b, format_a) fails with a
\* ConversionError and runs neither transform; an input that passes
\* validate_input gets the plain ConversionError of the routing.
C24_ForeignPairFails ==
    (/\ result.op = "instance_convert"
     /\ IsReversible(result.instance.cls)
     /\ ~BoundToDeclaredPair(result.instance)) =>
        /\ IsConversionError(result.ret.exc)
        /\ result.ret.ran = "none"
        /\ validate_input(result.instance, result.input) = ""
              => result.ret.exc = "ConversionError"

\* BinaryBase64Converter bound to (binary, hex) was given b"H"
C24_Witness ==
    /\ result.op = "instance_convert"
    /\ result.instance.cls = "BinaryBase64Converter"
    /\ result.instance.from_format = binary
    /\ result.instance.to_format = hex
    /\ result.input = PyBytes(<<72>>)
    /\ result.ret.exc = "ConversionError"
    /\ result.ret.ran = "none"

\* C25: create_reverse() on a reversible converter configured A -> B
\* returns a converter with from_format = B, to_format = A, the same
\* description and the same class, bound to its declared pair so that
\* convert on it runs the backward transform.
C25_ReverseInstance ==
    (/\ result.op = "create_reverse"
     /\ result.instance.from_format = result.instance.format_a
     /\ result.instance.to_format = result.instance.format_b) =>
        /\ result.ret.exc = ""
        /\ result.ret.instance.cls = result.instance.cls
        /\ result.ret.instance.from_format = result.instance.to_format
        /\ result.ret.instance.to_format = result.instance.from_format
        /\ result.ret.instance.description = result.instance.description
        /\ ReversibleConvert(result.ret.instance, PyStr(<<>>)).ran = "b_to_a"

\* C26: when _convert raises an exception that is not a ConversionError,
\* convert raises a plain ConversionError whose from_format and to_format
\* are the converter's and whose original_error is that exception; a
\* ConversionError or a subclass raised by _convert comes out unchanged.
C26_TransformErrorWrapped ==
    (/\ result.op = "base_convert"
     /\ result.ret.calls[Len(result.ret.calls)] = "_convert"
     /\ result.hooks.transform # "") =>
        /\ result.ret.exc = result.ret.error.exc
        /\ IF result.hooks.transform
                \in {"ConversionError", "UnsupportedFormatError",
                     "ValidationError", "ConfigurationError",
                     "ProcessingError"}
           THEN result.ret.error = Exc(result.hooks.transform)
           ELSE /\ result.ret.error.exc = "ConversionError"
                /\ result.ret.error.from_format = Converter.from_format
                /\ result.ret.error.to_format = Converter.to_format
                /\ result.ret.error.original_error = result.hooks.transform

\* _convert raised KeyError and the caller got the wrapping ConversionError
C26_Witness ==
    /\ result.op = "base_convert"
    /\ result.hooks.transform = "KeyError"
    /\ result.ret.calls[Len(result.ret.calls)] = "_convert"
    /\ result.ret.exc = "ConversionError"
    /\ result.ret.error.original_error = "KeyError"

\* _convert raised a ValidationError and the caller got it as raised
C26_WitnessUnchanged ==
    /\ result.op = "base_convert"
    /\ result.hooks.transform = "ValidationError"
    /\ result.ret.calls[Len(result.ret.calls)] = "_convert"
    /\ result.ret.error = Exc("ValidationError")

\* C27: an explicit registration of X for (B,A), made while (B,A) holds the
\* reverse entry derived from a reversible converter registered for (A,B),
\* replaces that entry: afterwards (B,A) maps to X and is an explicit
\* entry, and (A,B) maps to the class it had, also when X is reversible
\* and registered with auto_reverse.
C27_ExplicitReplacesDerived ==
    [][(/\ result'.op = "register_converter"
        /\ result'.exc = ""
        /\ <<result'.from_format, result'.to_format>> \in Pairs(converters)
        /\ provenance[<<result'.from_format, result'.to_format>>] = "auto")
       => /\ ClassOf(converters', <<result'.from_format, result'.to_format>>)
               = result'.cls
          /\ provenance'[<<result'.from_format, result'.to_format>>]
               = "explicit"
          /\ <<result'.to_format, result'.from_format>> \in Pairs(converters)
          /\ ClassOf(converters', <<result'.to_format, result'.from_format>>)
               = ClassOf(converters,
                         <<result'.to_format, result'.from_format>>)
          /\ Len(converters') = Len(converters)]_vars

\* two registrations so far, the first one with an auto-derived reverse
\* and the second one, of another reversible class with auto_reverse, for
\* that reverse pair
C27_Witness ==
    /\ Registered /\ result.auto_reverse /\ IsReversible(result.cls)
    /\ registered_count = 3
    /\ Len(converters) = 2
    /\ Len(format_converters[result.from_format]) = 2
    /\ converters[2] = [pair |-> <<result.from_format, result.to_format>>,
                        cls  |-> result.cls]
    /\ converters[1].pair = <<result.to_format, result.from_format>>
    /\ converters[1].cls # result.cls
    /\ IsReversible(converters[1].cls)

\* C28: whenever list_conversions() reports an entry (from, to) with
\* reversible = true, is_supported(to, from) holds in the same state.
C28_ReversibleMeansBothWays ==
    \A i \in 1..Len(converters) :
        list_conversions(Registry)[i].reversible
            => is_supported(Registry, list_conversions(Registry)[i].to,
                            list_conversions(Registry)[i].from)

\* C29: a registered pair stays registered across every later
\* register_converter call, successful or failing; only clear() removes
\* pairs.
C29_PairsOnlyRemovedByClear ==
    [][result'.op # "clear"
         => /\ Pairs(converters) \subseteq Pairs(converters')
            /\ \A p \in Pairs(converters) :
                  is_supported(Registry, p[1], p[2])
                    => <<Normalize(p[1]), Normalize(p[2])>>
                          \in Pairs(converters')]_vars

\* a registration replaced the class of a pair while other pairs were
\* registered
C29_Witness ==
    /\ Registered
    /\ registered_count > Len(converters)
    /\ Len(converters) >= 2
    /\ provenance[<<result.from_format, result.to_format>>] = "explicit"

\* the operations that look things up or list them
Lookups ==
    {"get_converter", "convert", "convert_back", "is_supported",
     "get_supported_formats", "list_conversions",
     "get_conversions_for_format", "get_stats"}

\* C30: get_converter (found or not), convert, is_supported,
\* get_supported_formats, list_conversions, get_conversions_for_format and
\* get_stats leave the pair map, the format graph, the reverse index and
\* the registration counter as they were.
C30_LookupsReadOnly ==
    [][result'.op \in Lookups
         => /\ converters' = converters
            /\ format_graph' = format_graph
            /\ format_converters' = format_converters
            /\ registered_count' = registered_count]_vars

\* is_supported answered False for a source format that is no key of the
\* format graph of a non-empty registry
C30_Witness ==
    /\ result.op = "is_supported"
    /\ ~result.ret
    /\ converters # <<>>
    /\ result.from_format \notin DOMAIN format_graph

====
